---------------------------- MODULE Spec2Model ----------------------------
(***************************************************************************)
(* A model of egglog_to_inference.py: the conversion of egglog rules       *)
(* written as s-expressions into LaTeX inference rules.                    *)
(*                                                                         *)
(* A Python str is a sequence of one-character strings; positions are      *)
(* 0-based as in the source, so text[i] of the source is text[i + 1] here  *)
(* and the slice text[a:b] is SubSeq(text, a + 1, b).                      *)
(***************************************************************************)
EXTENDS Integers, Sequences, FiniteSets, TLC

VARIABLES
    given,        \* how the argument of to_latex was drawn (kind and parts)
    input,        \* the argument of the outermost to_latex call
    stack,        \* the to_latex calls in progress, outermost first
    result,       \* what the outermost to_latex call returned or raised
    ex_text,      \* extract_balanced_content: its text argument
    ex_start,     \* extract_balanced_content: its start argument
    ex_result,    \* extract_balanced_content: the tuple it returned
    rule_text,    \* parse_rule: its argument
    phase,        \* parse_rule: where the call is
    content,      \* parse_sexp_list: its argument
    pos,          \* parse_sexp_list: the scan position
    expressions,  \* parse_sexp_list: the tokens found so far
    conditions,   \* parse_rule: the tokens of the first block
    conclusions   \* parse_rule: the tokens of the second block

vars == <<given, input, stack, result, ex_text, ex_start, ex_result,
          rule_text, phase, content, pos, expressions, conditions, conclusions>>

-----------------------------------------------------------------------------
(* Bounds of the model *)

\* the longest text drawn character by character
MaxLen == 5
\* the most tokens in a condition or conclusion block of a drawn rule
MaxItems == 2
\* the most blocks in a drawn batch
MaxBlocks == 2
\* the depth of nested to_latex calls at which the interpreter raises
\* RecursionError (sys.getrecursionlimit() in CPython, far larger there)
MaxDepth == 3

-----------------------------------------------------------------------------
(* Python values *)

\* None, and the two other values that are not a str: each is a sequence
\* holding one string of several characters, which no str of the model is
None == <<"None">>
RecursionError == <<"RecursionError">>
Pending == <<"pending">>

Whitespace == {" ", "\t", "\n"}
Digits == {"0", "1", "2", "3", "4", "5", "6", "7", "8", "9"}
Letters == {"a", "b", "c", "d", "e", "f", "g", "h", "i", "j", "k", "l", "m",
            "n", "o", "p", "q", "r", "s", "t", "u", "v", "w", "x", "y", "z",
            "A", "B", "C", "D", "E", "F", "G", "H", "I", "J", "K", "L", "M",
            "N", "O", "P", "Q", "R", "S", "T", "U", "V", "W", "X", "Y", "Z"}

isspace(c) == c \in Whitespace

RECURSIVE lstrip(_)
lstrip(s) ==
    IF s # <<>> /\ isspace(Head(s)) THEN lstrip(Tail(s)) ELSE s

RECURSIVE rstrip(_)
rstrip(s) ==
    IF s # <<>> /\ isspace(s[Len(s)]) THEN rstrip(SubSeq(s, 1, Len(s) - 1)) ELSE s

\* str.strip()
strip(s) == rstrip(lstrip(s))

\* str.startswith(p)
startswith(s, p) == Len(s) >= Len(p) /\ SubSeq(s, 1, Len(p)) = p

\* str.endswith(p)
endswith(s, p) == Len(s) >= Len(p) /\ SubSeq(s, Len(s) - Len(p) + 1, Len(s)) = p

\* str.count(p): the occurrences of p in s, left to right, none overlapping
RECURSIVE count(_, _)
count(s, p) ==
    IF Len(s) < Len(p) THEN 0
    ELSE IF SubSeq(s, 1, Len(p)) = p
         THEN 1 + count(SubSeq(s, Len(p) + 1, Len(s)), p)
         ELSE count(Tail(s), p)

\* str.split(): the maximal runs of characters that are not whitespace
RECURSIVE splitFrom(_, _, _)
splitFrom(s, words, current) ==
    IF s = <<>> THEN (IF current = <<>> THEN words ELSE Append(words, current))
    ELSE IF isspace(Head(s))
         THEN splitFrom(Tail(s),
                        IF current = <<>> THEN words ELSE Append(words, current),
                        <<>>)
         ELSE splitFrom(Tail(s), words, Append(current, Head(s)))

split(s) == splitFrom(s, <<>>, <<>>)

\* sep.join(items)
RECURSIVE join(_, _)
join(sep, items) ==
    IF items = <<>> THEN <<>>
    ELSE IF Len(items) = 1 THEN items[1]
    ELSE items[1] \o sep \o join(sep, Tail(items))

\* str.replace(old, new) for a one-character old
RECURSIVE replace(_, _, _)
replace(s, old, new) ==
    IF s = <<>> THEN <<>>
    ELSE (IF Head(s) = old THEN new ELSE <<Head(s)>>) \o replace(Tail(s), old, new)

\* str.isdigit(), str.isalpha(), str.isalnum(): false of the empty str
isdigit(s) == s # <<>> /\ \A k \in 1..Len(s) : s[k] \in Digits
isalpha(s) == s # <<>> /\ \A k \in 1..Len(s) : s[k] \in Letters
isalnum(s) == s # <<>> /\ \A k \in 1..Len(s) : s[k] \in Digits \cup Letters

\* str(i) of an integer i >= 0
DigitChars == <<"0", "1", "2", "3", "4", "5", "6", "7", "8", "9">>
RECURSIVE str(_)
str(i) ==
    IF i < 10 THEN <<DigitChars[i + 1]>>
    ELSE str(i \div 10) \o <<DigitChars[(i % 10) + 1]>>

-----------------------------------------------------------------------------
(* extract_balanced_content *)

\* the while loop: start moves to the first "(" at or after it
RECURSIVE SkipToParen(_, _)
SkipToParen(text, start) ==
    IF start < Len(text) /\ text[start + 1] # "("
    THEN SkipToParen(text, start + 1)
    ELSE start

\* ScanBalanced with the slice taken through the closing ")"
RECURSIVE ScanBalancedInclusive(_, _, _, _)
ScanBalancedInclusive(text, start, i, paren_count) ==
    IF i >= Len(text) THEN [content |-> None, end |-> start]
    ELSE IF text[i + 1] = "("
         THEN ScanBalancedInclusive(text, start, i + 1, paren_count + 1)
    ELSE IF text[i + 1] = ")"
         THEN IF paren_count - 1 = 0
              THEN [content |-> strip(SubSeq(text, start + 2, i + 1)), end |-> i + 1]
              ELSE ScanBalancedInclusive(text, start, i + 1, paren_count - 1)
    ELSE ScanBalancedInclusive(text, start, i + 1, paren_count)

\* the for loop from index i with the count so far; start is at the "("
RECURSIVE ScanBalanced(_, _, _, _)
ScanBalanced(text, start, i, paren_count) ==
    IF i >= Len(text) THEN [content |-> None, end |-> start]
    ELSE IF text[i + 1] = "("
         THEN ScanBalanced(text, start, i + 1, paren_count + 1)
    ELSE IF text[i + 1] = ")"
         THEN IF paren_count - 1 = 0
              THEN [content |-> strip(SubSeq(text, start + 2, i)), end |-> i + 1]
              ELSE ScanBalanced(text, start, i + 1, paren_count - 1)
    ELSE ScanBalanced(text, start, i + 1, paren_count)

\* extract_balanced_content without the while loop that moves start to the "("
extract_without_skip(text, start) ==
    IF start >= Len(text) THEN [content |-> None, end |-> start]
    ELSE ScanBalanced(text, start, start, 0)

\* the tuple (content, end) returned for (text, start)
extract_balanced_content(text, start) ==
    LET s == SkipToParen(text, start)
    IN  IF s >= Len(text) THEN [content |-> None, end |-> s]
        ELSE ScanBalanced(text, s, s, 0)

-----------------------------------------------------------------------------
(* clean_expression *)

TextOpen == <<"\\", "t", "e", "x", "t", "{">>

\* format_identifier: a number or a single letter stays bare, anything else
\* has its underscores escaped and is wrapped in \text{}
format_identifier(word) ==
    IF isdigit(word) \/ (Len(word) = 1 /\ isalpha(word))
    THEN word
    ELSE TextOpen \o replace(word, "_", <<"\\", "_">>) \o <<"}">>

\* the for loop of parse_expression over inner: the parts between the
\* spaces met at depth 0
RECURSIVE SplitParts(_, _, _, _)
SplitParts(inner, parts, current, depth) ==
    LET flushed == IF strip(current) # <<>>
                   THEN Append(parts, strip(current)) ELSE parts
    IN  IF inner = <<>> THEN flushed
        ELSE IF Head(inner) = "("
             THEN SplitParts(Tail(inner), parts, Append(current, "("), depth + 1)
        ELSE IF Head(inner) = ")"
             THEN SplitParts(Tail(inner), parts, Append(current, ")"), depth - 1)
        ELSE IF Head(inner) = " " /\ depth = 0
             THEN SplitParts(Tail(inner), flushed,
                             IF strip(current) # <<>> THEN <<>> ELSE current, depth)
        ELSE SplitParts(Tail(inner), parts, Append(current, Head(inner)), depth)

RECURSIVE parse_expression(_)
parse_expression(arg) ==
    LET text == strip(arg)
        words == split(text)
        inner == strip(SubSeq(text, 2, Len(text) - 1))
        parts == SplitParts(inner, <<>>, <<>>, 0)
    IN  IF ~ startswith(text, <<"(">>)
        THEN join(<<" ">>, [k \in 1..Len(words) |-> format_identifier(words[k])])
        ELSE IF parts = <<>> THEN <<>>
        ELSE IF Len(parts) = 1
             THEN <<"(">> \o format_identifier(parts[1]) \o <<")">>
        ELSE format_identifier(parts[1]) \o <<"(">>
             \o join(<<",", " ">>,
                     [k \in 1..(Len(parts) - 1) |-> parse_expression(parts[k + 1])])
             \o <<")">>

clean_expression(arg) ==
    LET expr == strip(arg)
        inner == SubSeq(expr, 2, Len(expr) - 1)
        parts == split(inner)
    IN  IF startswith(expr, <<"(">>) /\ endswith(expr, <<")">>)
        THEN IF /\ Len(parts) > 1
                /\ isalnum(replace(replace(parts[1], "_", <<>>), "-", <<>>))
             THEN parse_expression(expr)
             ELSE parse_expression(inner)
        ELSE parse_expression(expr)

-----------------------------------------------------------------------------
(* clean_equation *)

\* the for loop of clean_equation over content: the parts between the spaces
\* met at depth 0 once current holds something
RECURSIVE SplitEquation(_, _, _, _)
SplitEquation(text, parts, current, paren_count) ==
    IF text = <<>>
    THEN (IF current # <<>> THEN Append(parts, current) ELSE parts)
    ELSE IF Head(text) = "("
         THEN SplitEquation(Tail(text), parts, Append(current, "("), paren_count + 1)
    ELSE IF Head(text) = ")"
         THEN SplitEquation(Tail(text), parts, Append(current, ")"), paren_count - 1)
    ELSE IF Head(text) = " " /\ paren_count = 0 /\ current # <<>>
         THEN SplitEquation(Tail(text), Append(parts, current), <<>>, paren_count)
    ELSE SplitEquation(Tail(text), parts, Append(current, Head(text)), paren_count)

clean_equation(arg) ==
    LET expr == strip(arg)
        rest == SubSeq(expr, 4, Len(expr))
        body == IF endswith(rest, <<")">>) THEN SubSeq(rest, 1, Len(rest) - 1) ELSE rest
        parts == SplitEquation(body, <<>>, <<>>, 0)
    IN  IF startswith(expr, <<"(", "=", " ">>) /\ Len(parts) >= 2
        THEN clean_expression(parts[1]) \o <<" ", "=", " ">>
             \o clean_expression(join(<<" ">>, Tail(parts)))
        ELSE clean_expression(expr)

-----------------------------------------------------------------------------
(* format_multiline *)

TextTrue == <<"\\", "t", "e", "x", "t", "{", "t", "r", "u", "e", "}">>
ArrayBegin == <<"\\", "b", "e", "g", "i", "n", "{", "a", "r", "r", "a", "y", "}", "{", "l", "}", " ">>
ArrayEnd == <<" ", "\\", "e", "n", "d", "{", "a", "r", "r", "a", "y", "}">>
RowBreak == <<" ", "\\", "\\", " ">>

format_multiline(items) ==
    IF Len(items) > 1 THEN ArrayBegin \o join(RowBreak, items) \o ArrayEnd
    ELSE IF Len(items) = 1 THEN items[1]
    ELSE TextTrue

-----------------------------------------------------------------------------
(* parse_rewrite and parse_rule *)

KwRule == <<"(", "r", "u", "l", "e">>
KwRewrite == <<"(", "r", "e", "w", "r", "i", "t", "e">>

\* a str is true when it is neither None nor empty
truthy(s) == s # None /\ s # <<>>

\* the pair (lhs, rhs) returned for rule_text
parse_rewrite(arg) ==
    LET text == strip(arg)
        after == strip(SubSeq(text, Len(KwRewrite) + 1, Len(text)))
        body == IF endswith(after, <<")">>)
                THEN strip(SubSeq(after, 1, Len(after) - 1)) ELSE after
        lhs == extract_balanced_content(body, 0)
        rhs == extract_balanced_content(body, lhs.end)
    IN  IF startswith(text, KwRewrite) /\ truthy(lhs.content) /\ truthy(rhs.content)
        THEN [lhs |-> <<"(">> \o lhs.content \o <<")">>,
              rhs |-> <<"(">> \o rhs.content \o <<")">>]
        ELSE [lhs |-> None, rhs |-> None]

\* parse_rule up to its two extractions: the contents of the two blocks
RuleBlocks(arg) ==
    LET text == strip(arg)
        after == IF startswith(text, KwRule)
                 THEN strip(SubSeq(text, Len(KwRule) + 1, Len(text))) ELSE text
        body == IF endswith(after, <<")">>)
                THEN strip(SubSeq(after, 1, Len(after) - 1)) ELSE after
        first == extract_balanced_content(body, 0)
        second == extract_balanced_content(body, first.end)
    IN  [conditions_content |-> first.content, conclusions_content |-> second.content]

\* content or ""
orEmpty(s) == IF truthy(s) THEN s ELSE <<>>

RECURSIVE SkipSpace(_, _)
SkipSpace(text, p) ==
    IF p < Len(text) /\ isspace(text[p + 1]) THEN SkipSpace(text, p + 1) ELSE p

\* the inner while loop of the atom branch
RECURSIVE AtomEnd(_, _)
AtomEnd(text, p) ==
    IF p < Len(text) /\ ~ isspace(text[p + 1]) /\ text[p + 1] \notin {"(", ")"}
    THEN AtomEnd(text, p + 1) ELSE p

\* one iteration of the outer while loop of parse_sexp_list, entered with
\* p < len(content): the position and the tokens it leaves
SexpStep(text, p, found) ==
    LET q == SkipSpace(text, p)
        r == extract_balanced_content(text, q)
        e == AtomEnd(text, q)
    IN  IF q >= Len(text) THEN [pos |-> q, expressions |-> found]
        ELSE IF text[q + 1] = "("
             THEN IF r.content # None
                  THEN [pos |-> r.end,
                        expressions |-> Append(found, <<"(">> \o r.content \o <<")">>)]
                  ELSE [pos |-> q + 1, expressions |-> found]
        ELSE [pos |-> e,
              expressions |-> IF e > q THEN Append(found, SubSeq(text, q + 1, e))
                              ELSE found]

RECURSIVE SexpLoop(_, _, _)
SexpLoop(text, p, found) ==
    IF p < Len(text)
    THEN SexpLoop(text, SexpStep(text, p, found).pos, SexpStep(text, p, found).expressions)
    ELSE found

parse_sexp_list(text) == IF text = <<>> THEN <<>> ELSE SexpLoop(text, 0, <<>>)

\* the pair (conditions, conclusions) returned for rule_text
parse_rule(arg) ==
    [conditions |-> parse_sexp_list(orEmpty(RuleBlocks(arg).conditions_content)),
     conclusions |-> parse_sexp_list(orEmpty(RuleBlocks(arg).conclusions_content))]

-----------------------------------------------------------------------------
(* to_latex *)

KwRuleSp == <<"(", "r", "u", "l", "e", " ">>
KwRewriteSp == <<"(", "r", "e", "w", "r", "i", "t", "e", " ">>
FracOpen == <<"\\", "f", "r", "a", "c", "{">>
ExprEq == <<"e", "x", "p", "r", " ", "=", " ">>
ExprTo == <<"e", "x", "p", "r", " ", "\\", "t", "o", " ">>
RuleHeader == <<"%", " ", "R", "u", "l", "e", " ">>
ErrRewrite == <<"E", "r", "r", "o", "r", ":", " ", "C", "o", "u", "l", "d", " ", "n", "o", "t", " ", "p", "a", "r", "s", "e", " ", "r", "e", "w", "r", "i", "t", "e", " ", "r", "u", "l", "e">>
ErrRule == <<"E", "r", "r", "o", "r", ":", " ", "C", "o", "u", "l", "d", " ", "n", "o", "t", " ", "p", "a", "r", "s", "e", " ", "r", "u", "l", "e">>
ErrUnrecognized == <<"E", "r", "r", "o", "r", ":", " ", "U", "n", "r", "e", "c", "o", "g", "n", "i", "z", "e", "d", " ", "r", "u", "l", "e", " ", "f", "o", "r", "m", "a", "t">>

\* f"\\frac{{{numerator}}}{{{denominator}}}"
Frac(numerator, denominator) ==
    FracOpen \o numerator \o <<"}", "{">> \o denominator \o <<"}">>

\* the slice text[a:b], which stops at the end of text
slice(text, a, b) ==
    IF a >= Len(text) \/ b <= a THEN <<>>
    ELSE SubSeq(text, a + 1, IF b < Len(text) THEN b ELSE Len(text))

\* total_rules
total_rules(egglog_rule) == count(egglog_rule, KwRule) + count(egglog_rule, KwRewrite)

\* the inner while loop of the batch scan, from a keyword at p: the position
\* it leaves and whether the block closed
RECURSIVE ScanBlock(_, _, _)
ScanBlock(text, p, paren_count) ==
    IF p >= Len(text) THEN [pos |-> p, closed |-> FALSE]
    ELSE IF text[p + 1] = "("
         THEN ScanBlock(text, p + 1, paren_count + 1)
    ELSE IF text[p + 1] = ")"
         THEN IF paren_count - 1 = 0
              THEN [pos |-> p + 1, closed |-> TRUE]
              ELSE ScanBlock(text, p + 1, paren_count - 1)
    ELSE ScanBlock(text, p + 1, paren_count)

\* the outer while loop of the batch scan: the blocks appended to rules
RECURSIVE ScanRules(_, _, _)
ScanRules(text, p, rules) ==
    LET q == SkipSpace(text, p)
        b == ScanBlock(text, q, 0)
    IN  IF p >= Len(text) \/ q >= Len(text) THEN rules
        ELSE IF slice(text, q, q + 6) = KwRuleSp \/ slice(text, q, q + 9) = KwRewriteSp
             THEN ScanRules(text, b.pos,
                            IF b.closed THEN Append(rules, slice(text, q, b.pos))
                            ELSE rules)
        ELSE ScanRules(text, q + 1, rules)

\* the single-rule branches of to_latex, on the stripped argument
SingleRule(egglog_rule) ==
    LET rw == parse_rewrite(egglog_rule)
        pr == parse_rule(egglog_rule)
        condition_strs == [k \in 1..Len(pr.conditions) |-> clean_equation(pr.conditions[k])]
        conclusion_strs == [k \in 1..Len(pr.conclusions) |-> clean_expression(pr.conclusions[k])]
    IN  IF startswith(egglog_rule, KwRewrite)
        THEN IF ~ truthy(rw.lhs) \/ ~ truthy(rw.rhs)
             THEN ErrRewrite
             ELSE Frac(ExprEq \o clean_expression(rw.lhs),
                       ExprTo \o clean_expression(rw.rhs))
        ELSE IF startswith(egglog_rule, KwRule)
        THEN IF pr.conditions = <<>> /\ pr.conclusions = <<>>
             THEN ErrRule
             ELSE Frac(format_multiline(condition_strs), format_multiline(conclusion_strs))
        ELSE ErrUnrecognized

\* IsBatch with the batch branch taken from one keyword on
IsBatchFromOne(egglog_rule) ==
    total_rules(egglog_rule) >= 1 /\ ScanRules(egglog_rule, 0, <<>>) # <<>>

\* whether a call on the stripped argument takes the batch branch and
\* returns from it: more than one keyword, and a block found
IsBatch(egglog_rule) ==
    total_rules(egglog_rule) > 1 /\ ScanRules(egglog_rule, 0, <<>>) # <<>>

\* the frame of a call that has just been entered
Frame(arg) ==
    [egglog_rule |-> strip(arg), at |-> "entry", rules |-> <<>>, i |-> 1,
     latex_rules |-> <<>>]

\* the stack and result once the innermost call returns value: the caller,
\* if any, appends the numbered block and moves to its next rule
Return(value) ==
    LET caller == stack[Len(stack) - 1]
    IN  IF Len(stack) = 1
        THEN /\ stack' = <<>>
             /\ result' = value
        ELSE /\ stack' = [SubSeq(stack, 1, Len(stack) - 1) EXCEPT ![Len(stack) - 1] =
                    [caller EXCEPT
                        !.latex_rules = Append(@, RuleHeader \o str(caller.i) \o <<"\n">> \o value),
                        !.i = @ + 1]]
             /\ UNCHANGED result

IdleExtract == UNCHANGED <<ex_text, ex_start, ex_result>>
IdleParse == UNCHANGED <<rule_text, phase, content, pos, expressions, conditions, conclusions>>
IdleLatex == UNCHANGED <<given, input, stack, result>>

\* a call with at most one keyword, or with no block found, converts its
\* argument as a single rule and returns
ToLatexSingle ==
    /\ stack # <<>>
    /\ stack[Len(stack)].at = "entry"
    /\ ~ IsBatch(stack[Len(stack)].egglog_rule)
    /\ Return(SingleRule(stack[Len(stack)].egglog_rule))
    /\ UNCHANGED <<given, input>>
    /\ IdleExtract /\ IdleParse

\* a call with several keywords extracts the blocks
ToLatexScan ==
    /\ stack # <<>>
    /\ stack[Len(stack)].at = "entry"
    /\ IsBatch(stack[Len(stack)].egglog_rule)
    /\ stack' = [stack EXCEPT ![Len(stack)] =
            [@ EXCEPT !.at = "convert",
                      !.rules = ScanRules(stack[Len(stack)].egglog_rule, 0, <<>>)]]
    /\ UNCHANGED <<given, input, result>>
    /\ IdleExtract /\ IdleParse

\* the for loop calls to_latex on the next block
ToLatexRecurse ==
    /\ stack # <<>>
    /\ stack[Len(stack)].at = "convert"
    /\ stack[Len(stack)].i <= Len(stack[Len(stack)].rules)
    /\ Len(stack) < MaxDepth
    /\ stack' = Append(stack, Frame(stack[Len(stack)].rules[stack[Len(stack)].i]))
    /\ UNCHANGED <<given, input, result>>
    /\ IdleExtract /\ IdleParse

\* the call that would exceed the recursion limit raises, and no caller
\* catches it
ToLatexOverflow ==
    /\ stack # <<>>
    /\ stack[Len(stack)].at = "convert"
    /\ stack[Len(stack)].i <= Len(stack[Len(stack)].rules)
    /\ Len(stack) >= MaxDepth
    /\ stack' = <<>>
    /\ result' = RecursionError
    /\ UNCHANGED <<given, input>>
    /\ IdleExtract /\ IdleParse

\* after the last block the call joins the numbered blocks and returns
ToLatexJoin ==
    /\ stack # <<>>
    /\ stack[Len(stack)].at = "convert"
    /\ stack[Len(stack)].i > Len(stack[Len(stack)].rules)
    /\ Return(join(<<"\n", "\n">>, stack[Len(stack)].latex_rules))
    /\ UNCHANGED <<given, input>>
    /\ IdleExtract /\ IdleParse

\* the outermost call is made
ToLatexCall ==
    /\ stack = <<>>
    /\ result = Pending
    /\ given.kind # "idle"
    /\ stack' = <<Frame(input)>>
    /\ UNCHANGED <<given, input, result>>
    /\ IdleExtract /\ IdleParse

-----------------------------------------------------------------------------
(* The arguments drawn for to_latex *)

\* all sequences over S of length at most n
SeqsUpTo(S, n) == UNION {[1..k -> S] : k \in 0..n}

\* the sides of a drawn rewrite: an atom, a call, a call with an
\* underscore in its name, the empty list
RewriteSides == {
    <<"x">>,
    <<"(", "a", "d", "d", " ", "x", " ", "0", ")">>,
    <<"(", "f", "_", "g", " ", "a", ")">>,
    <<"(", ")">> }

\* the two sides of the equations among the drawn conditions
EqSides == { <<<<"a">>, <<"b">>>>,
             <<<<"(", "f", " ", "x", "_", "1", ")">>, <<"0">>>> }

EqText(L, R) == <<"(", "=", " ">> \o L \o <<" ">> \o R \o <<")">>

\* the conditions and conclusions of a drawn rule: an atom, a call, a call
\* of a function named rule-x, and the equations (= a b) and (= (f x_1) 0)
RuleItems == { <<"a">>, <<"(", "f", "o", "o", " ", "a", ")">>,
               <<"(", "r", "u", "l", "e", "-", "x", " ", "a", ")">> }
             \cup { EqText(e[1], e[2]) : e \in EqSides }

\* the blocks of a drawn batch: a rule, a rewrite, and a rule whose
\* condition is a form named rule-x
Blocks == {
    <<"(", "r", "u", "l", "e", " ", "(", "a", ")", " ", "(", "b", ")", ")">>,
    <<"(", "r", "e", "w", "r", "i", "t", "e", " ", "(", "a", ")", " ", "(", "b", ")", ")">>,
    <<"(", "r", "u", "l", "e", " ", "(", "(", "r", "u", "l", "e", "-", "x", " ", "a", ")", ")", " ", "(", "(", "b", ")", ")", ")">> }

RawAlphabet == {"(", ")", " ", "a"}

\* texts that are no rule: every short text over RawAlphabet, and some
\* texts that hold a keyword or nearly one
RawTexts == SeqsUpTo(RawAlphabet, MaxLen) \cup {
    <<"n", "o", "t", " ", "a", " ", "r", "u", "l", "e">>,
    <<"x", " ", "(", "r", "u", "l", "e", " ", "(", "a", ")", " ", "(", "b", ")", ")">>,
    <<"(", "r", "u", "l", " ", "(", "a", ")", " ", "(", "b", ")", ")">>,
    <<"(", "r", "u", "l", "e", " ", "(", "a", ")", " ", "(", "b", ")", ")", " ", "(", "r", "u", "l", "e", ")">> }

\* what may be wrong with a drawn rule or rewrite: nothing, the last ")"
\* missing, the second clause missing
Defects == {"none", "unclosed", "nosecond"}

RewriteText(A, Bs, defect) ==
    LET whole == KwRewriteSp \o A \o <<" ">> \o Bs[1] \o <<")">>
    IN  IF defect = "unclosed" THEN SubSeq(whole, 1, Len(whole) - 1)
        ELSE IF defect = "nosecond" THEN KwRewriteSp \o A \o <<")">>
        ELSE whole

RuleText(Cs, Ds, defect) ==
    LET first == <<"(">> \o join(<<" ">>, Cs) \o <<")">>
        whole == KwRuleSp \o first \o <<" ", "(">> \o join(<<" ">>, Ds) \o <<")", ")">>
    IN  IF defect = "unclosed" THEN SubSeq(whole, 1, Len(whole) - 1)
        ELSE IF defect = "nosecond" THEN KwRuleSp \o first \o <<")">>
        ELSE whole

\* a drawn rule or rewrite that lacks its second clause has no b
Givens ==
    {[kind |-> "rewrite", a |-> <<A>>, b |-> <<B>>, defect |-> d] :
        A \in RewriteSides, B \in RewriteSides, d \in Defects \ {"nosecond"}}
    \cup {[kind |-> "rewrite", a |-> <<A>>, b |-> <<>>, defect |-> "nosecond"] :
        A \in RewriteSides}
    \cup {[kind |-> "rule", a |-> Cs, b |-> Ds, defect |-> d] :
        Cs \in SeqsUpTo(RuleItems, MaxItems), Ds \in SeqsUpTo(RuleItems, MaxItems),
        d \in Defects \ {"nosecond"}}
    \cup {[kind |-> "rule", a |-> Cs, b |-> <<>>, defect |-> "nosecond"] :
        Cs \in SeqsUpTo(RuleItems, MaxItems)}
    \cup {[kind |-> "batch", a |-> bs, b |-> <<>>, defect |-> "none"] :
        bs \in SeqsUpTo(Blocks, MaxBlocks) \ {<<>>}}
    \cup {[kind |-> "raw", a |-> <<t>>, b |-> <<>>, defect |-> "none"] : t \in RawTexts}

TextOf(g) ==
    IF g.kind = "rewrite" THEN RewriteText(g.a[1], g.b, g.defect)
    ELSE IF g.kind = "rule" THEN RuleText(g.a, g.b, g.defect)
    ELSE IF g.kind = "batch" THEN join(<<" ">>, g.a)
    ELSE g.a[1]

NoGiven == [kind |-> "idle", a |-> <<>>, b |-> <<>>, defect |-> "none"]

LatexIdle ==
    /\ given = NoGiven
    /\ input = <<>>
    /\ stack = <<>>
    /\ result = Pending

ExtractIdle ==
    /\ ex_text = <<>>
    /\ ex_start = 0
    /\ ex_result = [content |-> Pending, end |-> 0]

ParseIdle ==
    /\ rule_text = <<>>
    /\ phase = "idle"
    /\ content = <<>>
    /\ pos = 0
    /\ expressions = <<>>
    /\ conditions = <<>>
    /\ conclusions = <<>>

Init ==
    /\ given \in Givens
    /\ input = TextOf(given)
    /\ stack = <<>>
    /\ result = Pending
    /\ ExtractIdle /\ ParseIdle

Next ==
    \/ ToLatexCall
    \/ ToLatexSingle
    \/ ToLatexScan
    \/ ToLatexRecurse
    \/ ToLatexOverflow
    \/ ToLatexJoin

Spec == Init /\ [][Next]_vars

-----------------------------------------------------------------------------
(* extract_balanced_content on drawn arguments *)

ExtractAlphabet == {"(", ")", " ", "\n", "a"}

InitExtract ==
    /\ ex_text \in SeqsUpTo(ExtractAlphabet, MaxLen)
    /\ ex_start \in 0..(Len(ex_text) + 1)
    /\ ex_result = [content |-> Pending, end |-> ex_start]
    /\ LatexIdle /\ ParseIdle

Extract ==
    /\ ex_result.content = Pending
    /\ ex_result' = extract_balanced_content(ex_text, ex_start)
    /\ UNCHANGED <<ex_text, ex_start>>
    /\ IdleLatex /\ IdleParse

NextExtract == Extract

SpecExtract == InitExtract /\ [][NextExtract]_vars

-----------------------------------------------------------------------------
(* parse_rule on drawn arguments, one iteration of parse_sexp_list a step *)

ParseAlphabet == {"(", ")", " ", "\n", "a"}

InitParse ==
    /\ \E t \in SeqsUpTo(ParseAlphabet, MaxLen) :
            rule_text \in {t, KwRule \o t, RuleText(<<t>>, <<t>>, "none")}
    /\ phase = "call"
    /\ content = <<>>
    /\ pos = 0
    /\ expressions = <<>>
    /\ conditions = <<>>
    /\ conclusions = <<>>
    /\ LatexIdle /\ ExtractIdle

\* the two extractions, and the call of parse_sexp_list on the first content
ParseRuleBegin ==
    /\ phase = "call"
    /\ phase' = "conditions"
    /\ content' = orEmpty(RuleBlocks(rule_text).conditions_content)
    /\ pos' = 0
    /\ expressions' = <<>>
    /\ UNCHANGED <<rule_text, conditions, conclusions>>
    /\ IdleLatex /\ IdleExtract

\* one iteration of the outer while loop
SexpIterate ==
    /\ phase \in {"conditions", "conclusions"}
    /\ pos < Len(content)
    /\ pos' = SexpStep(content, pos, expressions).pos
    /\ expressions' = SexpStep(content, pos, expressions).expressions
    /\ UNCHANGED <<rule_text, phase, content, conditions, conclusions>>
    /\ IdleLatex /\ IdleExtract

\* the first call returns, and parse_sexp_list is called on the second content
ConditionsParsed ==
    /\ phase = "conditions"
    /\ pos >= Len(content)
    /\ conditions' = expressions
    /\ phase' = "conclusions"
    /\ content' = orEmpty(RuleBlocks(rule_text).conclusions_content)
    /\ pos' = 0
    /\ expressions' = <<>>
    /\ UNCHANGED <<rule_text, conclusions>>
    /\ IdleLatex /\ IdleExtract

\* the second call returns, and parse_rule with it
ConclusionsParsed ==
    /\ phase = "conclusions"
    /\ pos >= Len(content)
    /\ conclusions' = expressions
    /\ phase' = "done"
    /\ UNCHANGED <<rule_text, content, pos, expressions, conditions>>
    /\ IdleLatex /\ IdleExtract

NextParse ==
    \/ ParseRuleBegin
    \/ SexpIterate
    \/ ConditionsParsed
    \/ ConclusionsParsed

SpecParse == InitParse /\ [][NextParse]_vars

-----------------------------------------------------------------------------
(* The claims about extract_balanced_content, under SpecExtract *)

Extracted == ex_result.content # Pending

CountChar(s, c) == Cardinality({k \in 1..Len(s) : s[k] = c})

\* the indices of the "(" at or after start
OpenFrom(text, start) == {j \in start..(Len(text) - 1) : text[j + 1] = "("}

\* the indices after j at which text[j..k] holds as many ")" as "("
ClosesOf(text, j) ==
    {k \in (j + 1)..(Len(text) - 1) :
        CountChar(SubSeq(text, j + 1, k + 1), "(") = CountChar(SubSeq(text, j + 1, k + 1), ")")}

Least(S) == CHOOSE m \in S : \A n \in S : m <= n

\* c is s without its leading and trailing whitespace
IsTrimOf(c, s) ==
    /\ c = <<>> \/ (c[1] \notin Whitespace /\ c[Len(c)] \notin Whitespace)
    /\ \E a \in 0..Len(s) :
          /\ a + Len(c) <= Len(s)
          /\ SubSeq(s, a + 1, a + Len(c)) = c
          /\ \A k \in 1..Len(s) : (k <= a \/ k > a + Len(c)) => s[k] \in Whitespace

\* C7: whenever extract_balanced_content finds no match (no "(" at or after
\* start, or a depth that never returns to zero) it returns (None, p) with p
\* the start position the caller passed.
C7_NoMatchKeepsStart ==
    (Extracted /\ ex_result.content = None) => ex_result.end = ex_start

\* C8: a content that is not None holds as many "(" as ")", is the trimmed
\* text strictly between the first "(" at or after start and the ")" where
\* the depth first returns to zero, and comes with the index just after that
\* ")"; and when there is no such "(" or no such ")" the content is None.
C8_BalancedSpan ==
    Extracted =>
        LET opens == OpenFrom(ex_text, ex_start)
            j == Least(opens)
            k == Least(ClosesOf(ex_text, j))
        IN  IF opens = {} \/ ClosesOf(ex_text, j) = {}
            THEN ex_result.content = None
            ELSE /\ ex_result.content # None
                 /\ CountChar(ex_result.content, "(") = CountChar(ex_result.content, ")")
                 /\ IsTrimOf(ex_result.content, SubSeq(ex_text, j + 2, k))
                 /\ ex_result.end = k + 1

\* a span found after skipped text, and trimmed
C8_Witness ==
    /\ Extracted
    /\ ex_result.content # None
    /\ ex_result.content # <<>>
    /\ ex_text[ex_start + 1] # "("
    /\ Len(ex_result.content) < ex_result.end - Least(OpenFrom(ex_text, ex_start)) - 2

-----------------------------------------------------------------------------
(* The claim about parse_sexp_list, under SpecParse *)

InLoop == phase \in {"conditions", "conclusions"} /\ pos < Len(content)

\* C10: every iteration of the outer loop of parse_sexp_list strictly
\* advances the scan position: after the whitespace the scan is never on a
\* ")", and every "(" it meets has its matching ")" inside the content.
C10_IterationAdvances ==
    InLoop =>
        LET q == SkipSpace(content, pos)
        IN  /\ SexpStep(content, pos, expressions).pos > pos
            /\ SexpStep(content, pos, expressions).pos <= Len(content)
            /\ q < Len(content) => content[q + 1] # ")"
            /\ (q < Len(content) /\ content[q + 1] = "(") =>
                   extract_balanced_content(content, q).content # None

\* the loop in mid-scan: a parenthesized token taken, an atom or more to come
C10_Witness ==
    /\ InLoop
    /\ pos > 0
    /\ Len(expressions) = 1
    /\ Head(expressions[1]) = "("
    /\ content[SkipSpace(content, pos) + 1] = "a"

-----------------------------------------------------------------------------
(* The claims about to_latex, under Spec *)

Done == result # Pending

ErrorPrefix == <<"E", "r", "r", "o", "r", ":", " ">>

\* whether the outermost call takes the single-rule dispatch by its keyword count
SingleDispatch == total_rules(strip(input)) < 2

\* C1: a well-formed (rewrite A B), A and B each an atom or a balanced
\* parenthesized expression, is returned as
\* \frac{expr = <clean_expression(A)>}{expr \to <clean_expression(B)>};
\* (rewrite (add x 0) x) gives \frac{expr = \text{add}(x, 0)}{expr \to x}.
C1_RewriteShape ==
    /\ (Done /\ given.kind = "rewrite" /\ given.defect = "none") =>
           result = Frac(ExprEq \o clean_expression(given.a[1]),
                         ExprTo \o clean_expression(given.b[1]))
    /\ (Done /\ input = <<"(", "r", "e", "w", "r", "i", "t", "e", " ", "(", "a", "d", "d", " ", "x", " ", "0", ")", " ", "x", ")">>) =>
           result = <<"\\", "f", "r", "a", "c", "{", "e", "x", "p", "r", " ", "=", " ", "\\", "t", "e", "x", "t", "{", "a", "d", "d", "}", "(", "x", ",", " ", "0", ")", "}", "{", "e", "x", "p", "r", " ", "\\", "t", "o", " ", "x", "}">>

\* C2: to_latex terminates and returns a string for every input: a call made
\* from the batch branch is always on a strictly shorter text than its
\* caller's, never on the same text, and no call raises.
C2_RecursionShrinks ==
    /\ result # RecursionError
    /\ \A k \in 2..Len(stack) :
           Len(stack[k].egglog_rule) < Len(stack[k - 1].egglog_rule)

\* str.split("\n")
RECURSIVE SplitLines(_, _)
SplitLines(s, line) ==
    IF s = <<>> THEN <<line>>
    ELSE IF Head(s) = "\n" THEN <<line>> \o SplitLines(Tail(s), <<>>)
    ELSE SplitLines(Tail(s), Append(line, Head(s)))

IsHeader(line) == startswith(line, RuleHeader)

HeaderLines(s) == SelectSeq(SplitLines(s, <<>>), IsHeader)

\* C3: for an input made of N >= 1 top-level balanced blocks the output
\* holds exactly N header lines, % Rule 1 to % Rule N, in this order.
C3_BatchCount ==
    (Done /\ given.kind = "batch") =>
        /\ result # RecursionError
        /\ HeaderLines(result) = [k \in 1..Len(given.a) |-> RuleHeader \o str(k)]

\* C4: a single-rule input that starts with (rule or (rewrite and lacks its
\* last ")" or its second clause is returned as a string that begins with
\* "Error: ", never as a \frac rendering and never as an exception.
C4_MalformedIsError ==
    (Done /\ given.kind \in {"rule", "rewrite"} /\ given.defect # "none" /\ SingleDispatch) =>
        /\ result # RecursionError
        /\ startswith(result, ErrorPrefix)
        /\ ~ startswith(result, FracOpen)

\* the items as one line, one array block, or \text{true}
RECURSIVE Rows(_)
Rows(items) ==
    IF Len(items) = 1 THEN items[1] ELSE items[1] \o RowBreak \o Rows(Tail(items))

Layout(items) ==
    IF items = <<>> THEN TextTrue
    ELSE IF Len(items) = 1 THEN items[1]
    ELSE ArrayBegin \o Rows(items) \o ArrayEnd

\* a condition as the claim renders it: (= L R) as clean(L) = clean(R)
Condition(c) ==
    IF \E e \in EqSides : c = EqText(e[1], e[2])
    THEN LET e == CHOOSE e \in EqSides : c = EqText(e[1], e[2])
         IN  clean_expression(e[1]) \o <<" ", "=", " ">> \o clean_expression(e[2])
    ELSE clean_equation(c)

Numerator(g) == Layout([k \in 1..Len(g.a) |-> Condition(g.a[k])])
Denominator(g) == Layout([k \in 1..Len(g.b) |-> clean_expression(g.b[k])])

\* C5: a balanced (rule (C...) (D...)) with an empty block, or two, is
\* valid: it is returned as \frac{N}{D} with \text{true} on each empty side
\* and never as a string that begins with "Error: ".
C5_EmptyBlockValid ==
    (/\ Done /\ given.kind = "rule" /\ given.defect = "none"
     /\ (given.a = <<>> \/ given.b = <<>>)) =>
        /\ ~ startswith(result, ErrorPrefix)
        /\ result = Frac(Numerator(given), Denominator(given))

\* C6: a well-formed single rule (rule (C1 ... Cn) (D1 ... Dm)), n + m >= 1,
\* is returned as \frac{N}{D}: N the conditions rendered by clean_equation
\* and D the conclusions rendered by clean_expression, in source order, no
\* item as \text{true}, one item as itself, more as one array block;
\* (= L R) renders as clean(L) = clean(R), and (rule ((= a b)) ((foo a)))
\* has numerator a = b and denominator \text{foo}(a).
C6_RuleShape ==
    /\ (/\ Done /\ given.kind = "rule" /\ given.defect = "none"
        /\ Len(given.a) + Len(given.b) >= 1) =>
           result = Frac(Numerator(given), Denominator(given))
    /\ (Done /\ input = <<"(", "r", "u", "l", "e", " ", "(", "(", "=", " ", "a", " ", "b", ")", ")", " ", "(", "(", "f", "o", "o", " ", "a", ")", ")", ")">>) =>
           result = <<"\\", "f", "r", "a", "c", "{", "a", " ", "=", " ", "b", "}", "{", "\\", "t", "e", "x", "t", "{", "f", "o", "o", "}", "(", "a", ")", "}">>

\* C6 for the rules that hold one keyword only: these take the single-rule
\* dispatch, and are returned as the claim says.
C6_OneKeywordRuleShape ==
    (/\ Done /\ given.kind = "rule" /\ given.defect = "none"
     /\ Len(given.a) + Len(given.b) >= 1 /\ SingleDispatch) =>
        result = Frac(Numerator(given), Denominator(given))

\* C9: an input of fewer than two keyword occurrences whose trimmed text
\* begins with neither (rewrite nor (rule is returned as exactly
\* "Error: Unrecognized rule format", and nothing is raised; so is "not a rule".
C9_Unrecognized ==
    /\ (/\ Done /\ SingleDispatch
        /\ ~ startswith(strip(input), KwRewrite)
        /\ ~ startswith(strip(input), KwRule)) => result = ErrUnrecognized
    /\ (Done /\ input = <<"n", "o", "t", " ", "a", " ", "r", "u", "l", "e">>) =>
           result = <<"E", "r", "r", "o", "r", ":", " ", "U", "n", "r", "e", "c", "o", "g", "n", "i", "z", "e", "d", " ", "r", "u", "l", "e", " ", "f", "o", "r", "m", "a", "t">>

\* a text that holds one keyword but does not begin with it, converted
C9_Witness ==
    /\ Done
    /\ total_rules(strip(input)) = 1
    /\ ~ startswith(strip(input), <<"(">>)
    /\ result = ErrUnrecognized

=============================================================================
